---- MODULE Spec2Model ----
\* A model of the clvm_rs core operators (src/core_ops.rs), their argument
\* helpers (src/op_utils.rs) and the fixed 32-bit atom decoders.
\*
\* The allocator is an arena: a sequence of nodes, a pointer is an index into it.
\* An operator is a function of (allocator, input pointer, max_cost) that returns
\* the allocator after the call and a Response: Ok(Reduction(cost, node)) or
\* Err(EvalErr(node, msg)).
EXTENDS Integers, Sequences, FiniteSets, TLC

VARIABLES
    arena,   \* the allocator's backing store: Seq of nodes, pointer = index
    args,    \* the evaluated argument list the evaluator hands to the next operator
    res,     \* the outcome of the last call
    prev,    \* the response whose result node `args` was assembled from
    allocs,  \* number of pairs allocated since the argument list was handed over
    pynodes  \* the host side: the PyIntNode cells created so far, a cell's id = index

vars == <<arena, args, res, prev, allocs, pynodes>>

----------------------------------------------------------------------------
\* Bounds of the model.

MaxArgs == 4        \* longest argument list drawn for an operator
MaxExpected == 3    \* largest arity / early-exit limit passed to the helpers
MaxAllocs == 2      \* pairs allocated after the argument list was built
MaxBufLen == 5      \* longest byte string given to the 32-bit decoders
MaxCost == 200      \* the larger of the two cost ceilings tried

Costs == {0, MaxCost}
Bytes == {0, 1, 127, 128, 255}

----------------------------------------------------------------------------
\* Cost constants (src/core_ops.rs:7-16).

FIRST_COST == 30
IF_COST == 33
CONS_COST == 50
REST_COST == 30
LISTP_COST == 19
EQ_BASE_COST == 117
EQ_COST_PER_BYTE == 1

----------------------------------------------------------------------------
\* Allocator: nodes, constants, allocation.

NoPtr == 0

Atom(b) == [tag |-> "Atom", buf |-> b, first |-> NoPtr, rest |-> NoPtr]
Pair(f, r) == [tag |-> "Pair", buf |-> <<>>, first |-> f, rest |-> r]

\* IntAllocator::new(): the two canonical constants are always present.
NewAllocator == <<Atom(<<>>), Atom(<<1>>)>>
null == 1
one == 2

\* new_pair: appends one pair cell, existing nodes are untouched;
\* returns the allocator and the new pointer.
new_pair(a, f, r) == [a |-> Append(a, Pair(f, r)), ptr |-> Len(a) + 1]

\* Node::pair(): Some((first, rest)) for a pair, None for an atom.
Node_pair(a, p) ==
    IF a[p].tag = "Pair" THEN [some |-> TRUE, first |-> a[p].first, rest |-> a[p].rest]
    ELSE [some |-> FALSE, first |-> NoPtr, rest |-> NoPtr]

\* Node::atom(): Some(bytes) for an atom, None for a pair.
Node_atom(a, p) ==
    IF a[p].tag = "Atom" THEN [some |-> TRUE, buf |-> a[p].buf]
    ELSE [some |-> FALSE, buf |-> <<>>]

\* Node::nullp(): true iff the node is the empty atom.
nullp(a, p) == a[p].tag = "Atom" /\ Len(a[p].buf) = 0

----------------------------------------------------------------------------
\* Responses.

Reduction(cost, node) == [ok |-> TRUE, cost |-> cost, node |-> node, msg |-> ""]
EvalErr(node, msg) == [ok |-> FALSE, cost |-> 0, node |-> node, msg |-> msg]
OkUnit == [ok |-> TRUE, cost |-> 0, node |-> NoPtr, msg |-> ""]

\* err_utils::err
err(node, msg) == EvalErr(node, msg)

\* Node::err: the error is tied to this node.
Node_err(a, p, msg) == err(p, msg)

\* Node::first / Node::rest
Node_first(a, p) ==
    LET pr == Node_pair(a, p) IN
    IF pr.some THEN Reduction(0, pr.first) ELSE Node_err(a, p, "first of non-cons")

Node_rest(a, p) ==
    LET pr == Node_pair(a, p) IN
    IF pr.some THEN Reduction(0, pr.rest) ELSE Node_err(a, p, "rest of non-cons")

----------------------------------------------------------------------------
\* Arity helpers (src/op_utils.rs).

\* arg_count with the early exit taken at `count >= return_early_if_exceeds`.
RECURSIVE arg_count_loop_ge(_, _, _, _, _)
arg_count_loop_ge(a, ptr, count, cells, return_early_if_exceeds) ==
    LET pr == Node_pair(a, ptr) IN
    IF ~pr.some THEN [count |-> count, cells |-> cells]
    ELSE LET c1 == count + 1
             v1 == Append(cells, ptr)
         IN IF c1 >= return_early_if_exceeds
            THEN [count |-> c1, cells |-> v1]
            ELSE arg_count_loop_ge(a, pr.rest, c1, v1, return_early_if_exceeds)

\* The loop of arg_count: `cells` is the sequence of pair cells the loop has
\* destructured so far, `count` the running count.
RECURSIVE arg_count_loop(_, _, _, _, _)
arg_count_loop(a, ptr, count, cells, return_early_if_exceeds) ==
    LET pr == Node_pair(a, ptr) IN
    IF ~pr.some THEN [count |-> count, cells |-> cells]
    ELSE LET c1 == count + 1
             v1 == Append(cells, ptr)
         IN IF c1 > return_early_if_exceeds
            THEN [count |-> c1, cells |-> v1]
            ELSE arg_count_loop(a, pr.rest, c1, v1, return_early_if_exceeds)

arg_count_run(a, p, return_early_if_exceeds) ==
    arg_count_loop(a, p, 0, <<>>, return_early_if_exceeds)

arg_count(a, p, return_early_if_exceeds) ==
    arg_count_run(a, p, return_early_if_exceeds).count

arity_msg(name, expected) ==
    name \o " takes exactly " \o ToString(expected) \o " argument"
         \o (IF expected = 1 THEN "" ELSE "s")

\* check_arg_count that always writes the plural.
check_arg_count_plural(a, p, expected, name) ==
    IF arg_count(a, p, expected) # expected
    THEN Node_err(a, p, name \o " takes exactly " \o ToString(expected) \o " arguments")
    ELSE OkUnit

check_arg_count(a, p, expected, name) ==
    IF arg_count(a, p, expected) # expected
    THEN Node_err(a, p, arity_msg(name, expected))
    ELSE OkUnit

\* atom with the message of int_atom.
atom_int_msg(a, p, op_name) ==
    LET at == Node_atom(a, p) IN
    IF at.some THEN [ok |-> TRUE, buf |-> at.buf, err |-> OkUnit]
    ELSE [ok |-> FALSE, buf |-> <<>>,
          err |-> Node_err(a, p, op_name \o " requires int args")]

\* op_utils::atom
atom(a, p, op_name) ==
    LET at == Node_atom(a, p) IN
    IF at.some THEN [ok |-> TRUE, buf |-> at.buf, err |-> OkUnit]
    ELSE [ok |-> FALSE, buf |-> <<>>, err |-> Node_err(a, p, op_name \o " on list")]

----------------------------------------------------------------------------
\* Core operators (src/core_ops.rs). Each returns [a: allocator after, r: Response].

Out(a, r) == [a |-> a, r |-> r]

\* op_if with the branches the wrong way round.
op_if_swapped(a, input, max_cost) ==
    LET c == check_arg_count(a, input, 3, "i") IN
    IF ~c.ok THEN Out(a, c) ELSE
    LET cond == Node_first(a, input) IN
    IF ~cond.ok THEN Out(a, cond) ELSE
    LET rst == Node_rest(a, input) IN
    IF ~rst.ok THEN Out(a, rst) ELSE
    LET chosen == IF ~nullp(a, cond.node) THEN Node_rest(a, rst.node) ELSE rst IN
    IF ~chosen.ok THEN Out(a, chosen) ELSE
    LET f == Node_first(a, chosen.node) IN
    IF ~f.ok THEN Out(a, f) ELSE Out(a, Reduction(IF_COST, f.node))

op_if(a, input, max_cost) ==
    LET c == check_arg_count(a, input, 3, "i") IN
    IF ~c.ok THEN Out(a, c) ELSE
    LET cond == Node_first(a, input) IN
    IF ~cond.ok THEN Out(a, cond) ELSE
    LET rst == Node_rest(a, input) IN
    IF ~rst.ok THEN Out(a, rst) ELSE
    LET chosen == IF nullp(a, cond.node) THEN Node_rest(a, rst.node) ELSE rst IN
    IF ~chosen.ok THEN Out(a, chosen) ELSE
    LET f == Node_first(a, chosen.node) IN
    IF ~f.ok THEN Out(a, f) ELSE Out(a, Reduction(IF_COST, f.node))

\* op_cons that builds the pair (a2 . a1).
op_cons_swapped(a, input, max_cost) ==
    LET c == check_arg_count(a, input, 2, "c") IN
    IF ~c.ok THEN Out(a, c) ELSE
    LET a1 == Node_first(a, input) IN
    IF ~a1.ok THEN Out(a, a1) ELSE
    LET rst == Node_rest(a, input) IN
    IF ~rst.ok THEN Out(a, rst) ELSE
    LET a2 == Node_first(a, rst.node) IN
    IF ~a2.ok THEN Out(a, a2) ELSE
    LET np == new_pair(a, a2.node, a1.node) IN
    Out(np.a, Reduction(CONS_COST, np.ptr))

op_cons(a, input, max_cost) ==
    LET c == check_arg_count(a, input, 2, "c") IN
    IF ~c.ok THEN Out(a, c) ELSE
    LET a1 == Node_first(a, input) IN
    IF ~a1.ok THEN Out(a, a1) ELSE
    LET rst == Node_rest(a, input) IN
    IF ~rst.ok THEN Out(a, rst) ELSE
    LET a2 == Node_first(a, rst.node) IN
    IF ~a2.ok THEN Out(a, a2) ELSE
    LET np == new_pair(a, a1.node, a2.node) IN
    Out(np.a, Reduction(CONS_COST, np.ptr))

\* op_first that checks its own cost against the ceiling.
op_first_metered(a, input, max_cost) ==
    LET c == check_arg_count(a, input, 1, "f") IN
    IF ~c.ok THEN Out(a, c) ELSE
    IF FIRST_COST > max_cost THEN Out(a, Node_err(a, input, "cost exceeded")) ELSE
    LET a0 == Node_first(a, input) IN
    IF ~a0.ok THEN Out(a, a0) ELSE
    LET f == Node_first(a, a0.node) IN
    IF ~f.ok THEN Out(a, f) ELSE Out(a, Reduction(FIRST_COST, f.node))

op_first(a, input, max_cost) ==
    LET c == check_arg_count(a, input, 1, "f") IN
    IF ~c.ok THEN Out(a, c) ELSE
    LET a0 == Node_first(a, input) IN
    IF ~a0.ok THEN Out(a, a0) ELSE
    LET f == Node_first(a, a0.node) IN
    IF ~f.ok THEN Out(a, f) ELSE Out(a, Reduction(FIRST_COST, f.node))

\* op_rest that ties the non-cons error to the argument list.
op_rest_args_err(a, input, max_cost) ==
    LET c == check_arg_count(a, input, 1, "r") IN
    IF ~c.ok THEN Out(a, c) ELSE
    LET a0 == Node_first(a, input) IN
    IF ~a0.ok THEN Out(a, a0) ELSE
    LET r == Node_rest(a, a0.node) IN
    IF ~r.ok THEN Out(a, Node_err(a, input, r.msg))
    ELSE Out(a, Reduction(REST_COST, r.node))

op_rest(a, input, max_cost) ==
    LET c == check_arg_count(a, input, 1, "r") IN
    IF ~c.ok THEN Out(a, c) ELSE
    LET a0 == Node_first(a, input) IN
    IF ~a0.ok THEN Out(a, a0) ELSE
    LET r == Node_rest(a, a0.node) IN
    IF ~r.ok THEN Out(a, r) ELSE Out(a, Reduction(REST_COST, r.node))

\* op_listp that allocates a fresh atom for true instead of returning the constant.
op_listp_fresh(a, input, max_cost) ==
    LET c == check_arg_count(a, input, 1, "l") IN
    IF ~c.ok THEN Out(a, c) ELSE
    LET a0 == Node_first(a, input) IN
    IF ~a0.ok THEN Out(a, a0) ELSE
    IF Node_pair(a, a0.node).some
    THEN Out(Append(a, Atom(<<1>>)), Reduction(LISTP_COST, Len(a) + 1))
    ELSE Out(a, Reduction(LISTP_COST, null))

\* op_listp that answers whether the argument is non-nil.
op_listp_truthy(a, input, max_cost) ==
    LET c == check_arg_count(a, input, 1, "l") IN
    IF ~c.ok THEN Out(a, c) ELSE
    LET a0 == Node_first(a, input) IN
    IF ~a0.ok THEN Out(a, a0) ELSE
    IF ~nullp(a, a0.node)
    THEN Out(a, Reduction(LISTP_COST, one))
    ELSE Out(a, Reduction(LISTP_COST, null))

op_listp(a, input, max_cost) ==
    LET c == check_arg_count(a, input, 1, "l") IN
    IF ~c.ok THEN Out(a, c) ELSE
    LET a0 == Node_first(a, input) IN
    IF ~a0.ok THEN Out(a, a0) ELSE
    IF Node_pair(a, a0.node).some
    THEN Out(a, Reduction(LISTP_COST, one))
    ELSE Out(a, Reduction(LISTP_COST, null))

\* op_raise that reports its first argument when there is one.
op_raise_first(a, input, max_cost) ==
    LET f == Node_first(a, input) IN
    IF f.ok THEN Out(a, Node_err(a, f.node, "clvm raise"))
    ELSE Out(a, Node_err(a, input, "clvm raise"))

op_raise(a, input, max_cost) == Out(a, Node_err(a, input, "clvm raise"))

\* op_eq that compares the pointers instead of the bytes.
op_eq_ptr(a, input, max_cost) ==
    LET c == check_arg_count(a, input, 2, "=") IN
    IF ~c.ok THEN Out(a, c) ELSE
    LET a0 == Node_first(a, input) IN
    IF ~a0.ok THEN Out(a, a0) ELSE
    LET rst == Node_rest(a, input) IN
    IF ~rst.ok THEN Out(a, rst) ELSE
    LET a1 == Node_first(a, rst.node) IN
    IF ~a1.ok THEN Out(a, a1) ELSE
    LET s0 == atom(a, a0.node, "=") IN
    IF ~s0.ok THEN Out(a, s0.err) ELSE
    LET s1 == atom(a, a1.node, "=") IN
    IF ~s1.ok THEN Out(a, s1.err) ELSE
    LET cost == EQ_BASE_COST + (Len(s0.buf) + Len(s1.buf)) * EQ_COST_PER_BYTE IN
    Out(a, Reduction(cost, IF a0.node = a1.node THEN one ELSE null))

op_eq(a, input, max_cost) ==
    LET c == check_arg_count(a, input, 2, "=") IN
    IF ~c.ok THEN Out(a, c) ELSE
    LET a0 == Node_first(a, input) IN
    IF ~a0.ok THEN Out(a, a0) ELSE
    LET rst == Node_rest(a, input) IN
    IF ~rst.ok THEN Out(a, rst) ELSE
    LET a1 == Node_first(a, rst.node) IN
    IF ~a1.ok THEN Out(a, a1) ELSE
    LET s0 == atom(a, a0.node, "=") IN
    IF ~s0.ok THEN Out(a, s0.err) ELSE
    LET s1 == atom(a, a1.node, "=") IN
    IF ~s1.ok THEN Out(a, s1.err) ELSE
    LET cost == EQ_BASE_COST + (Len(s0.buf) + Len(s1.buf)) * EQ_COST_PER_BYTE IN
    Out(a, Reduction(cost, IF s0.buf = s1.buf THEN one ELSE null))

----------------------------------------------------------------------------
\* Fixed 32-bit decoders (src/op_utils.rs).

Some(v) == [some |-> TRUE, val |-> v]
None == [some |-> FALSE, val |-> <<>>]

\* A u32 register is kept as its four bytes, most significant first (the
\* unsigned values above 2^31 - 1 exceed the integers TLC evaluates).
U32_ZERO == <<0, 0, 0, 0>>
U32_ONES == <<255, 255, 255, 255>>

\* The body of `for b in buf { ret <<= 8; ret |= *b as u32; }`: the shift drops
\* the top byte and leaves the low byte zero, so the bitwise or puts b there.
RECURSIVE u32_shift_in(_, _)
u32_shift_in(ret, buf) ==
    IF Len(buf) = 0 THEN ret
    ELSE u32_shift_in(<<ret[2], ret[3], ret[4], Head(buf)>>, Tail(buf))

\* u32_from_u8_impl with the length test off by one (`buf.len() >= 4`).
u32_from_u8_impl_ge4(buf, signed) ==
    IF Len(buf) = 0 THEN Some(U32_ZERO)
    ELSE IF Len(buf) >= 4 THEN None
    ELSE LET sign_extend == buf[1] >= 128
             ret0 == IF signed /\ sign_extend THEN U32_ONES ELSE U32_ZERO
         IN Some(u32_shift_in(ret0, buf))

\* u32_from_u8_impl that never sign-extends (`ret` always starts at 0).
u32_from_u8_impl_nosign(buf, signed) ==
    IF Len(buf) = 0 THEN Some(U32_ZERO)
    ELSE IF Len(buf) > 4 THEN None
    ELSE Some(u32_shift_in(U32_ZERO, buf))

u32_from_u8_impl(buf, signed) ==
    IF Len(buf) = 0 THEN Some(U32_ZERO)
    ELSE IF Len(buf) > 4 THEN None
    ELSE LET sign_extend == buf[1] >= 128
             ret0 == IF signed /\ sign_extend THEN U32_ONES ELSE U32_ZERO
         IN Some(u32_shift_in(ret0, buf))

u32_from_u8(buf) == u32_from_u8_impl(buf, FALSE)

\* `v as i32`: the 32-bit pattern read as two's complement.
as_i32(v) ==
    (IF v[1] >= 128 THEN v[1] - 256 ELSE v[1]) * 16777216
        + v[2] * 65536 + v[3] * 256 + v[4]

i32_from_u8(buf) ==
    LET r == u32_from_u8_impl(buf, TRUE) IN
    IF r.some THEN Some(as_i32(r.val)) ELSE None

i32_atom(a, p, op_name) ==
    LET at == Node_atom(a, p) IN
    IF ~at.some
    THEN [val |-> 0, r |-> Node_err(a, p, op_name \o " requires int32 args")]
    ELSE LET d == i32_from_u8(at.buf) IN
         IF d.some THEN [val |-> d.val, r |-> OkUnit]
         ELSE [val |-> 0,
               r |-> Node_err(a, p, op_name \o " requires int32 args (with no leading zeros)")]

----------------------------------------------------------------------------
\* State machine.

OpNames == {"i", "c", "f", "r", "l", "x", "="}
HelperNames == {"f", "="}

\* The record kept of the last call: which function, on which input, with which
\* parameter (max_cost, expected, return_early_if_exceeds), and what came back.
Call(op, name, input, param, r, count, cells, val) ==
    [op |-> op, name |-> name, input |-> input, param |-> param,
     ok |-> r.ok, cost |-> r.cost, node |-> r.node, msg |-> r.msg,
     count |-> count, cells |-> cells, val |-> val]

NoCall == Call("none", "", NoPtr, 0, OkUnit, 0, <<>>, 0)

\* Values an argument can be: null, one, the one-byte atom 0x00, a second atom
\* with the bytes of `one`, and the pairs (0x00 . null) and (one . 0x00).
zero == Len(NewAllocator) + 1
one2 == zero + 1
pr == one2 + 1
pr2 == pr + 1
Pool == NewAllocator \o <<Atom(<<0>>), Atom(<<1>>), Pair(zero, null), Pair(one, zero)>>
Elems == 1..Len(Pool)
Tails == {null, zero}

\* The allocator after the evaluator has consed the list `elems` (terminated by
\* `tail`) from its last element to its first, and the pointer to the list.
ListArena(elems, tail) ==
    Pool \o [j \in 1..Len(elems) |->
                Pair(elems[Len(elems) - j + 1],
                     IF j = 1 THEN tail ELSE Len(Pool) + j - 1)]

ListPtr(elems, tail) == IF Len(elems) = 0 THEN tail ELSE Len(Pool) + Len(elems)

ArgLists == UNION {[1..k -> Elems] : k \in 0..MaxArgs}

Init ==
    \E elems \in ArgLists, tail \in Tails :
        /\ arena = ListArena(elems, tail)
        /\ args = ListPtr(elems, tail)
        /\ res = NoCall
        /\ prev = NoCall
        /\ allocs = 0
        /\ pynodes = <<>>

\* The evaluator dispatches each argument list it has assembled once: a call is
\* made only while no call on the current argument list has returned.
Ready == res.op = "none"

\* One operator call on the current argument list.
Apply(op, out, max_cost) ==
    /\ allocs + (Len(out.a) - Len(arena)) <= MaxAllocs
    /\ arena' = out.a
    /\ allocs' = allocs + (Len(out.a) - Len(arena))
    /\ res' = Call(op, op, args, max_cost, out.r, 0, <<>>, 0)
    /\ UNCHANGED <<args, prev, pynodes>>

OpIf ==
    /\ Ready
    /\ \E mc \in Costs : Apply("i", op_if(arena, args, mc), mc)
OpCons ==
    /\ Ready
    /\ \E mc \in Costs : Apply("c", op_cons(arena, args, mc), mc)
OpFirst ==
    /\ Ready
    /\ \E mc \in Costs : Apply("f", op_first(arena, args, mc), mc)
OpRest ==
    /\ Ready
    /\ \E mc \in Costs : Apply("r", op_rest(arena, args, mc), mc)
OpListp ==
    /\ Ready
    /\ \E mc \in Costs : Apply("l", op_listp(arena, args, mc), mc)
OpRaise ==
    /\ Ready
    /\ \E mc \in Costs : Apply("x", op_raise(arena, args, mc), mc)
OpEq ==
    /\ Ready
    /\ \E mc \in Costs : Apply("=", op_eq(arena, args, mc), mc)

ArgCount ==
    \E n \in 0..MaxExpected :
        LET run == arg_count_run(arena, args, n) IN
        /\ Ready
        /\ res' = Call("arg_count", "", args, n, OkUnit, run.count, run.cells, 0)
        /\ UNCHANGED <<arena, args, prev, allocs, pynodes>>

CheckArgCount ==
    \E expected \in 0..MaxExpected, name \in HelperNames :
        /\ Ready
        /\ res' = Call("check_arg_count", name, args, expected,
                       check_arg_count(arena, args, expected, name), 0, <<>>, 0)
        /\ UNCHANGED <<arena, args, prev, allocs, pynodes>>

\* The evaluator assembles the one-element argument list (v) from the result v
\* of the operator call it has just made, as for the program (op2 (op1 ...)).
Assemble ==
    /\ res.op \in OpNames
    /\ res.ok
    /\ allocs < MaxAllocs
    /\ LET np == new_pair(arena, res.node, null) IN
        /\ arena' = np.a
        /\ args' = np.ptr
    /\ prev' = res
    /\ res' = NoCall
    /\ allocs' = allocs + 1
    /\ UNCHANGED pynodes

Next ==
    \/ OpIf
    \/ OpCons
    \/ OpFirst
    \/ OpRest
    \/ OpListp
    \/ OpRaise
    \/ OpEq
    \/ ArgCount
    \/ CheckArgCount
    \/ Assemble

Spec == Init /\ [][Next]_vars

----------------------------------------------------------------------------
\* The decoders on their own: the allocator holds one atom drawn from the byte
\* strings of length 0..MaxBufLen, and the pair (atom . null).

RECURSIVE BufsOfLen(_)
BufsOfLen(n) ==
    IF n = 0 THEN {<<>>}
    ELSE {<<b>> \o t : b \in Bytes, t \in BufsOfLen(n - 1)}

Bufs == UNION {BufsOfLen(n) : n \in 0..MaxBufLen}

InitNum ==
    \E b \in Bufs :
        /\ arena = NewAllocator \o <<Atom(b), Pair(Len(NewAllocator) + 1, null)>>
        /\ args \in {Len(NewAllocator) + 1, Len(NewAllocator) + 2}
        /\ res = NoCall
        /\ prev = NoCall
        /\ allocs = 0
        /\ pynodes = <<>>

U32FromU8 ==
    /\ Ready
    /\ Node_atom(arena, args).some
    /\ LET d == u32_from_u8(Node_atom(arena, args).buf) IN
        res' = Call("u32_from_u8", "", args, 0,
                    [OkUnit EXCEPT !.ok = d.some], 0, <<>>, d.val)
    /\ UNCHANGED <<arena, args, prev, allocs, pynodes>>

I32FromU8 ==
    /\ Ready
    /\ Node_atom(arena, args).some
    /\ LET d == i32_from_u8(Node_atom(arena, args).buf) IN
        res' = Call("i32_from_u8", "", args, 0,
                    [OkUnit EXCEPT !.ok = d.some], 0, <<>>, d.val)
    /\ UNCHANGED <<arena, args, prev, allocs, pynodes>>

I32Atom ==
    \E name \in HelperNames :
        /\ Ready
        /\ LET d == i32_atom(arena, args, name) IN
            res' = Call("i32_atom", name, args, 0, d.r, 0, <<>>, d.val)
        /\ UNCHANGED <<arena, args, prev, allocs, pynodes>>

NextNum ==
    \/ U32FromU8
    \/ I32FromU8
    \/ I32Atom

SpecNum == InitNum /\ [][NextNum]_vars

----------------------------------------------------------------------------
\* Vocabulary of the properties: the shape of an argument list, read off the
\* arena directly.

IsPair(p) == arena[p].tag = "Pair"
IsAtom(p) == arena[p].tag = "Atom"
BufOf(p) == arena[p].buf
Min(x, y) == IF x <= y THEN x ELSE y

\* The pair cells on the rest-spine of p before the first atom, in order.
RECURSIVE SpineCells(_)
SpineCells(p) == IF IsPair(p) THEN <<p>> \o SpineCells(arena[p].rest) ELSE <<>>

SpineLen(p) == Len(SpineCells(p))

\* The i-th argument (1-based) of the list p.
ArgAt(p, i) == arena[SpineCells(p)[i]].first

ArityError(name, n) ==
    name \o " takes exactly " \o ToString(n)
         \o (IF n = 1 THEN " argument" ELSE " arguments")

----------------------------------------------------------------------------
\* C1: arg_count(args, n) returns min(k, n + 1), k the number of pair cells on
\* the rest-spine of args; its loop visits only the first min(k, n + 1) cells of
\* the spine, so at most n + 1 of them, and exactly 3 when n = 2 and k >= 3.
C1_ArgCountCapped ==
    res.op = "arg_count" =>
        LET k == SpineLen(res.input)
            n == res.param
        IN /\ res.count = Min(k, n + 1)
           /\ Len(res.cells) <= n + 1
           /\ res.cells = SubSeq(SpineCells(res.input), 1, Min(k, n + 1))
           /\ (n = 2 /\ k >= 3 => Len(res.cells) = 3)

\* A list of four cells counted against n = 2: the loop stopped after 3 cells.
C1_Witness ==
    /\ res.op = "arg_count"
    /\ res.param = 2
    /\ SpineLen(res.input) = 4
    /\ res.count = 3
    /\ Len(res.cells) = 3

\* C2: check_arg_count(args, expected, name) is Ok exactly when the spine of
\* args has exactly `expected` pair cells; otherwise it is an EvalErr on args
\* itself with the message "<name> takes exactly <expected> argument(s)".
C2_CheckArgCount ==
    res.op = "check_arg_count" =>
        IF SpineLen(res.input) = res.param
        THEN res.ok
        ELSE /\ ~res.ok
             /\ res.node = res.input
             /\ res.msg = ArityError(res.name, res.param)

\* Two arguments checked against expected = 1: the singular message, on args.
C2_Witness ==
    /\ res.op = "check_arg_count"
    /\ res.param = 1
    /\ SpineLen(res.input) = 2
    /\ ~res.ok
    /\ res.node = res.input
    /\ res.msg = "f takes exactly 1 argument"

\* C3: on a list (A B C) of exactly three elements op_if succeeds with cost 33
\* and returns the pointer of C when A is the empty atom and the pointer of B
\* otherwise; with any other number of arguments it fails with the arity error.
C3_OpIf ==
    res.op = "i" =>
        IF SpineLen(res.input) = 3
        THEN /\ res.ok
             /\ res.cost = 33
             /\ res.node = IF IsAtom(ArgAt(res.input, 1)) /\ BufOf(ArgAt(res.input, 1)) = <<>>
                           THEN ArgAt(res.input, 3)
                           ELSE ArgAt(res.input, 2)
        ELSE /\ ~res.ok
             /\ res.node = res.input
             /\ res.msg = "i takes exactly 3 arguments"

\* The condition is the one-byte atom 0x00 and B, C differ: B's pointer came back.
C3_Witness ==
    /\ res.op = "i"
    /\ SpineLen(res.input) = 3
    /\ IsAtom(ArgAt(res.input, 1))
    /\ BufOf(ArgAt(res.input, 1)) = <<0>>
    /\ ArgAt(res.input, 2) # ArgAt(res.input, 3)
    /\ res.ok
    /\ res.node = ArgAt(res.input, 2)

\* C4: op_cons on (x y) succeeds with cost 50 and returns a pair p; op_first on
\* the list (p) then returns exactly the pointer x with cost 30 and op_rest on
\* (p) exactly the pointer y with cost 30.
C4_ConsFirstRest ==
    /\ res.op = "c" /\ SpineLen(res.input) = 2 =>
          res.ok /\ res.cost = 50 /\ IsPair(res.node)
    /\ prev.op = "c" /\ prev.ok /\ res.op = "f" =>
          res.ok /\ res.cost = 30 /\ res.node = ArgAt(prev.input, 1)
    /\ prev.op = "c" /\ prev.ok /\ res.op = "r" =>
          res.ok /\ res.cost = 30 /\ res.node = ArgAt(prev.input, 2)

\* op_rest has run on the list (p), p the pair op_cons made of x and y, x # y.
C4_Witness ==
    /\ prev.op = "c"
    /\ prev.ok
    /\ args = Len(arena)
    /\ arena[args] = Pair(prev.node, null)
    /\ ArgAt(prev.input, 1) # ArgAt(prev.input, 2)
    /\ res.op = "r"
    /\ res.ok
    /\ res.node = ArgAt(prev.input, 2)

\* C5: when the single argument of op_first / op_rest is an atom, the operator
\* fails with "first of non-cons" / "rest of non-cons" and the offending node
\* is that atom, not the argument list.
C5_FirstRestOfAtom ==
    res.op \in {"f", "r"} /\ SpineLen(res.input) = 1 /\ IsAtom(ArgAt(res.input, 1)) =>
        /\ ~res.ok
        /\ res.node = ArgAt(res.input, 1)
        /\ res.node # res.input
        /\ res.msg = IF res.op = "f" THEN "first of non-cons" ELSE "rest of non-cons"

\* op_rest on the list (null).
C5_Witness ==
    /\ res.op = "r"
    /\ SpineLen(res.input) = 1
    /\ ArgAt(res.input, 1) = null
    /\ ~res.ok
    /\ res.node = null
    /\ res.msg = "rest of non-cons"

\* C6: on a one-element list (v) op_listp never fails: cost 19, and `one` when
\* v is a pair, `null` when v is an atom (the empty atom included).
C6_OpListp ==
    res.op = "l" /\ SpineLen(res.input) = 1 =>
        /\ res.ok
        /\ res.cost = 19
        /\ res.node = IF IsPair(ArgAt(res.input, 1)) THEN one ELSE null

\* op_listp on a non-empty atom returned null.
C6_Witness ==
    /\ res.op = "l"
    /\ SpineLen(res.input) = 1
    /\ IsAtom(ArgAt(res.input, 1))
    /\ BufOf(ArgAt(res.input, 1)) # <<>>
    /\ res.ok
    /\ res.node = null

\* C7: on a two-element list (a b) of atoms op_eq succeeds, returns `one` iff
\* the bytes of a and b are equal (whatever the pointers) and `null` otherwise,
\* with cost 117 + len(a) + len(b).
C7_OpEqAtoms ==
    res.op = "=" /\ SpineLen(res.input) = 2
                 /\ IsAtom(ArgAt(res.input, 1)) /\ IsAtom(ArgAt(res.input, 2)) =>
        LET s0 == BufOf(ArgAt(res.input, 1))
            s1 == BufOf(ArgAt(res.input, 2))
        IN /\ res.ok
           /\ res.node = IF s0 = s1 THEN one ELSE null
           /\ res.cost = 117 + Len(s0) + Len(s1)

\* Two different pointers with the same non-empty bytes compared equal.
C7_Witness ==
    /\ res.op = "="
    /\ SpineLen(res.input) = 2
    /\ IsAtom(ArgAt(res.input, 1))
    /\ IsAtom(ArgAt(res.input, 2))
    /\ ArgAt(res.input, 1) # ArgAt(res.input, 2)
    /\ BufOf(ArgAt(res.input, 1)) = BufOf(ArgAt(res.input, 2))
    /\ res.ok
    /\ res.node = one
    /\ res.cost = 119

\* C8: on a two-element list with at least one pair argument op_eq fails with
\* "= on list"; the offending node is the first argument when it is a pair,
\* otherwise the second.
C8_OpEqOnPair ==
    res.op = "=" /\ SpineLen(res.input) = 2
                 /\ (IsPair(ArgAt(res.input, 1)) \/ IsPair(ArgAt(res.input, 2))) =>
        /\ ~res.ok
        /\ res.msg = "= on list"
        /\ res.node = IF IsPair(ArgAt(res.input, 1)) THEN ArgAt(res.input, 1)
                      ELSE ArgAt(res.input, 2)

\* Both arguments are pairs, at different pointers: the first one is reported.
C8_Witness ==
    /\ res.op = "="
    /\ SpineLen(res.input) = 2
    /\ IsPair(ArgAt(res.input, 1))
    /\ IsPair(ArgAt(res.input, 2))
    /\ ArgAt(res.input, 1) # ArgAt(res.input, 2)
    /\ ~res.ok
    /\ res.node = ArgAt(res.input, 1)

\* C9: op_raise fails on every input and every max_cost: no Reduction, no
\* arity check, the EvalErr carries the input pointer and "clvm raise".
C9_OpRaise ==
    res.op = "x" =>
        /\ ~res.ok
        /\ res.node = res.input
        /\ res.msg = "clvm raise"

\* op_raise on a list of several elements whose first element is a pair.
C9_Witness ==
    /\ res.op = "x"
    /\ SpineLen(res.input) >= 2
    /\ IsPair(ArgAt(res.input, 1))
    /\ ~res.ok
    /\ res.node = res.input

----------------------------------------------------------------------------
\* Minimal two's-complement encoding: a leading 0x00 is redundant when it is
\* the only byte or the next byte has its top bit clear; a leading 0xff is
\* redundant when the next byte has its top bit set.

RedundantZero(b) == Len(b) >= 1 /\ b[1] = 0 /\ (Len(b) = 1 \/ b[2] < 128)
RedundantFF(b) == Len(b) >= 2 /\ b[1] = 255 /\ b[2] >= 128

Int32Error(name) == name \o " requires int32 args (with no leading zeros)"

\* C10 as stated: u32_from_u8 and i32_from_u8 return None for every atom with a
\* redundant leading 0x00 byte (for the signed decoder also a redundant leading
\* 0xff byte) and for every atom longer than 32 bits, and i32_atom fails with
\* "<op> requires int32 args (with no leading zeros)" on every such atom.
C10_RejectsNonMinimal ==
    LET b == BufOf(res.input) IN
    /\ res.op = "u32_from_u8" /\ (RedundantZero(b) \/ Len(b) > 4) => ~res.ok
    /\ res.op = "i32_from_u8" /\ (RedundantZero(b) \/ RedundantFF(b) \/ Len(b) > 4) =>
          ~res.ok
    /\ res.op = "i32_atom" /\ IsAtom(res.input)
                           /\ (RedundantZero(b) \/ RedundantFF(b) \/ Len(b) > 4) =>
          ~res.ok /\ res.msg = Int32Error(res.name)

\* C10 (amended): u32_from_u8 and i32_from_u8 return None exactly for the atoms
\* longer than 4 bytes, whatever their bytes; atoms of at most 4 bytes are
\* accepted also when they carry redundant leading 0x00 or 0xff bytes.
\* i32_atom fails with "<op> requires int32 args (with no leading zeros)", on
\* the atom itself, exactly for the atoms longer than 4 bytes.
C10_RejectsOnlyLongAtoms ==
    LET b == BufOf(res.input) IN
    /\ res.op \in {"u32_from_u8", "i32_from_u8"} => (res.ok <=> Len(b) <= 4)
    /\ res.op = "i32_atom" /\ IsAtom(res.input) =>
          IF Len(b) > 4
          THEN ~res.ok /\ res.node = res.input /\ res.msg = Int32Error(res.name)
          ELSE res.ok

\* i32_atom has rejected a five-byte atom with a redundant leading zero.
C10_Witness ==
    /\ res.op = "i32_atom"
    /\ IsAtom(res.input)
    /\ Len(BufOf(res.input)) = 5
    /\ RedundantZero(BufOf(res.input))
    /\ ~res.ok
    /\ res.msg = "f requires int32 args (with no leading zeros)"

----------------------------------------------------------------------------
\* Big-endian values, stated without the decoder's loop.

\* b as a 32-bit pattern: b right-aligned in four bytes, the bytes above it `fill`.
PadLeft(b, fill) ==
    [i \in 1..4 |-> IF i <= 4 - Len(b) THEN fill ELSE b[i - (4 - Len(b))]]

Pow256(n) == IF n = 0 THEN 1 ELSE IF n = 1 THEN 256 ELSE IF n = 2 THEN 65536 ELSE 16777216

\* The unsigned big-endian value of at most three bytes.
RECURSIVE BigEndian(_)
BigEndian(b) ==
    IF Len(b) = 0 THEN 0 ELSE Head(b) * Pow256(Len(b) - 1) + BigEndian(Tail(b))

\* The two's-complement value of b (1..4 bytes), its sign the top bit of b[1].
SignedValue(b) ==
    IF Len(b) = 0 THEN 0
    ELSE (IF b[1] >= 128 THEN b[1] - 256 ELSE b[1]) * Pow256(Len(b) - 1)
            + BigEndian(Tail(b))

\* The 32-bit two's-complement pattern of an i32.
PatternOf(v) ==
    <<(v \div 16777216) % 256, (v \div 65536) % 256, (v \div 256) % 256, v % 256>>

\* C11: for a byte string b of length 0..4 u32_from_u8(b) is Some of the
\* big-endian unsigned value of b (high bytes zero) and i32_from_u8(b) is Some
\* of the two's-complement value of b sign-extended from the top bit of b[0];
\* the empty string decodes to 0 in both; 5 bytes or more give None in both.
\* The two results are the same 32-bit pattern when the top bit of b[0] is
\* clear or len(b) = 4.
C11_DecodedValue ==
    LET b == BufOf(res.input) IN
    /\ res.op = "u32_from_u8" =>
          IF Len(b) <= 4
          THEN res.ok /\ res.val = PadLeft(b, 0) /\ (Len(b) = 0 => res.val = <<0, 0, 0, 0>>)
          ELSE ~res.ok
    /\ res.op = "i32_from_u8" =>
          IF Len(b) <= 4
          THEN /\ res.ok
               /\ res.val = SignedValue(b)
               /\ (Len(b) = 0 => res.val = 0)
               /\ PatternOf(res.val) =
                     PadLeft(b, IF Len(b) > 0 /\ b[1] >= 128 THEN 255 ELSE 0)
               /\ (Len(b) = 0 \/ b[1] < 128 \/ Len(b) = 4 =>
                     PatternOf(res.val) = u32_from_u8(b).val)
          ELSE ~res.ok

\* i32_from_u8 has sign-extended a two-byte string with its top bit set.
C11_Witness ==
    /\ res.op = "i32_from_u8"
    /\ BufOf(res.input) = <<255, 127>>
    /\ res.ok
    /\ res.val = -129


\* ---------------------------------------------------------------------------
\* The operator dispatch of the Python binding (py/op_fn.rs).
\* ---------------------------------------------------------------------------

\* longest argument list handed to a dispatch
MaxPyArgs == 2

\* A Python object as the binding looks at it: its type, and the int, the text,
\* or the items it carries.  A node carries the pointer the cache maps it to,
\* NoPtr when the cache cannot map it.
PyObj(t, n, s, items) == [t |-> t, n |-> n, s |-> s, items |-> items]
PyInt(v) == PyObj("int", v, "", <<>>)
PyStr(s) == PyObj("str", 0, s, <<>>)
PyNode(p) == PyObj("node", p, "", <<>>)
PyOther == PyObj("other", 0, "", <<>>)
PyMissing == PyObj("missing", 0, "", <<>>)
PyTuple(items) == PyObj("tuple", 0, "", items)

\* PyResult<T>
PyOk(v) == [ok |-> TRUE, panic |-> FALSE, val |-> v]
PyErr == [ok |-> FALSE, panic |-> FALSE, val |-> PyOther]
\* a Rust panic unwinding out of the call
Panic == [ok |-> FALSE, panic |-> TRUE, val |-> PyOther]

\* PyTuple::get_item: the index is asserted to be in range
get_item(tuple, index) ==
    IF index < Len(tuple.items) THEN PyOk(tuple.items[index + 1]) ELSE Panic

\* o.extract::<T>()
extract(o, t) == IF o.t = t THEN PyOk(o) ELSE PyErr

\* PyNativeMapping::native_for_py
native_for_py(py_node) == IF py_node.n = NoPtr THEN PyErr ELSE PyOk(py_node.n)

\* PyNativeMapping::py_for_native: the host-side node of a pointer, or a PyErr
py_for_native(cache_ok, ptr) == IF cache_ok THEN PyOk(PyNode(ptr)) ELSE PyErr

\* What the host callable does when called: it raises an exception whose `args`
\* and `_sexp` attributes are value and sexp, or it returns value.
Host(raise, value, sexp) == [raise |-> raise, value |-> value, sexp |-> sexp]
NoHost == Host(FALSE, PyMissing, PyMissing)

\* the outcome of a dispatch: a Response, or a panic
Exit(r) == [ok |-> r.ok, cost |-> r.cost, node |-> r.node, msg |-> r.msg, panic |-> FALSE]
Panicked == [ok |-> FALSE, cost |-> 0, node |-> NoPtr, msg |-> "", panic |-> TRUE]

eval_err_for_pyerr(pyerr) ==
    LET a == extract(pyerr.value, "tuple") IN
    IF ~a.ok THEN PyErr
    ELSE LET i == get_item(a.val, 0) IN
    IF i.panic THEN Panic
    ELSE LET arg0 == extract(i.val, "str") IN
    IF ~arg0.ok THEN PyErr
    ELSE LET sexp == extract(pyerr.sexp, "node") IN
    IF ~sexp.ok THEN PyErr
    ELSE LET node == native_for_py(sexp.val) IN
    IF ~node.ok THEN PyErr
    ELSE PyOk(EvalErr(node.val, arg0.val.s))

unwrap_or_eval_err(obj, err_node, msg) ==
    [ok |-> obj.ok, panic |-> obj.panic, val |-> obj.val, err |-> EvalErr(err_node, msg)]

\* what invoke_py_obj did: its exit, and the calls it made to the host callable
Invoked(r, calls) == [r |-> r, calls |-> calls]
HostCall(op, r) == [op |-> op, args |-> r]

\* invoke_py_obj, but the reported cost is cut down to the ceiling
invoke_py_obj_truncating(cache_ok, obj, op_buf, input, max_cost) ==
    LET r == unwrap_or_eval_err(py_for_native(cache_ok, input), input, "can't uncache") IN
    IF ~r.ok THEN Invoked(Exit(r.err), <<>>)
    ELSE LET calls == <<HostCall(op_buf, r.val)>> IN
    IF obj.raise THEN
        LET eval_err == unwrap_or_eval_err(eval_err_for_pyerr(obj), input,
                                           "unexpected exception") IN
        IF eval_err.panic THEN Invoked(Panicked, calls)
        ELSE IF eval_err.ok THEN Invoked(Exit(eval_err.val), calls)
        ELSE Invoked(Exit(eval_err.err), calls)
    ELSE
        LET pair == unwrap_or_eval_err(extract(obj.value, "tuple"), input, "expected tuple") IN
        IF ~pair.ok THEN Invoked(Exit(pair.err), calls)
        ELSE LET item0 == get_item(pair.val, 0) IN
        IF item0.panic THEN Invoked(Panicked, calls)
        ELSE LET i0 == unwrap_or_eval_err(extract(item0.val, "int"), input, "expected u32") IN
        IF ~i0.ok THEN Invoked(Exit(i0.err), calls)
        ELSE LET item1 == get_item(pair.val, 1) IN
        IF item1.panic THEN Invoked(Panicked, calls)
        ELSE LET py_node == unwrap_or_eval_err(extract(item1.val, "node"), input,
                                               "expected node") IN
        IF ~py_node.ok THEN Invoked(Exit(py_node.err), calls)
        ELSE LET node == unwrap_or_eval_err(native_for_py(py_node.val), input,
                                            "can't find in int allocator") IN
        IF ~node.ok THEN Invoked(Exit(node.err), calls)
        ELSE Invoked(Exit(Reduction(IF i0.val.n > max_cost THEN max_cost ELSE i0.val.n,
                                 node.val)), calls)

invoke_py_obj(cache_ok, obj, op_buf, input, max_cost) ==
    LET r == unwrap_or_eval_err(py_for_native(cache_ok, input), input, "can't uncache") IN
    IF ~r.ok THEN Invoked(Exit(r.err), <<>>)
    ELSE LET calls == <<HostCall(op_buf, r.val)>> IN
    IF obj.raise THEN
        LET eval_err == unwrap_or_eval_err(eval_err_for_pyerr(obj), input,
                                           "unexpected exception") IN
        IF eval_err.panic THEN Invoked(Panicked, calls)
        ELSE IF eval_err.ok THEN Invoked(Exit(eval_err.val), calls)
        ELSE Invoked(Exit(eval_err.err), calls)
    ELSE
        LET pair == unwrap_or_eval_err(extract(obj.value, "tuple"), input, "expected tuple") IN
        IF ~pair.ok THEN Invoked(Exit(pair.err), calls)
        ELSE LET item0 == get_item(pair.val, 0) IN
        IF item0.panic THEN Invoked(Panicked, calls)
        ELSE LET i0 == unwrap_or_eval_err(extract(item0.val, "int"), input, "expected u32") IN
        IF ~i0.ok THEN Invoked(Exit(i0.err), calls)
        ELSE LET item1 == get_item(pair.val, 1) IN
        IF item1.panic THEN Invoked(Panicked, calls)
        ELSE LET py_node == unwrap_or_eval_err(extract(item1.val, "node"), input,
                                               "expected node") IN
        IF ~py_node.ok THEN Invoked(Exit(py_node.err), calls)
        ELSE LET node == unwrap_or_eval_err(native_for_py(py_node.val), input,
                                            "can't find in int allocator") IN
        IF ~node.ok THEN Invoked(Exit(node.err), calls)
        ELSE Invoked(Exit(Reduction(i0.val.n, node.val)), calls)

\* the built-in a populated slot of the table holds
NativeFn(name, a, input, max_cost) ==
    CASE name = "i" -> op_if(a, input, max_cost)
      [] name = "c" -> op_cons(a, input, max_cost)
      [] name = "f" -> op_first(a, input, max_cost)
      [] name = "r" -> op_rest(a, input, max_cost)
      [] name = "l" -> op_listp(a, input, max_cost)
      [] name = "x" -> op_raise(a, input, max_cost)
      [] name = "=" -> op_eq(a, input, max_cost)

\* what a dispatch did: the allocator and the exit it leaves, the built-in it
\* ran ("none" if it ran none), and the calls it made to the host callable
Dispatched(a, r, native, calls) == [a |-> a, r |-> r, native |-> native, calls |-> calls]

\* PyOperatorHandler::op, but the first byte of any non-empty opcode indexes the table
op_first_byte(native_lookup, cache_ok, py_callable, a, op_buf, input, max_cost) ==
    IF Len(op_buf) >= 1 /\ native_lookup[op_buf[1]] # "none"
    THEN LET out == NativeFn(native_lookup[op_buf[1]], a, input, max_cost) IN
         Dispatched(out.a, Exit(out.r), native_lookup[op_buf[1]], <<>>)
    ELSE LET inv == invoke_py_obj(cache_ok, py_callable, op_buf, input, max_cost) IN
         Dispatched(a, inv.r, "none", inv.calls)

\* PyOperatorHandler::op
op(native_lookup, cache_ok, py_callable, a, op_buf, input, max_cost) ==
    IF Len(op_buf) = 1 /\ native_lookup[op_buf[1]] # "none"
    THEN LET out == NativeFn(native_lookup[op_buf[1]], a, input, max_cost) IN
         Dispatched(out.a, Exit(out.r), native_lookup[op_buf[1]], <<>>)
    ELSE LET inv == invoke_py_obj(cache_ok, py_callable, op_buf, input, max_cost) IN
         Dispatched(a, inv.r, "none", inv.calls)

\* f_lookup_for_hashmap: the dense table of 256 slots; the slot of byte b holds
\* the built-in whose name the map sends to the one-byte opcode <<b>>
f_lookup_for_hashmap(opcode_lookup_by_name) ==
    [b \in 0..255 |->
        IF \E n \in DOMAIN opcode_lookup_by_name : opcode_lookup_by_name[n] = <<b>>
        THEN CHOOSE n \in DOMAIN opcode_lookup_by_name : opcode_lookup_by_name[n] = <<b>>
        ELSE "none"]

\* PyOperatorHandler::new
PyOperatorHandler_new(opcode_lookup_by_name) ==
    [op |-> "new", native_lookup |-> f_lookup_for_hashmap(opcode_lookup_by_name)]

\* the maps a handler is built from: every built-in on its own byte; two
\* built-ins on one byte each and one under a two-byte opcode; no built-in
OpcodeMaps ==
    { ("i" :> <<3>>) @@ ("c" :> <<4>>) @@ ("f" :> <<5>>) @@ ("r" :> <<6>>) @@
      ("l" :> <<7>>) @@ ("x" :> <<8>>) @@ ("=" :> <<9>>),
      ("c" :> <<4>>) @@ ("f" :> <<5>>) @@ ("l" :> <<7, 7>>),
      ("l" :> <<7, 7>>) }

\* the opcodes dispatched: empty, one byte, several bytes
Opcodes ==
    {<<>>, <<0>>, <<3>>, <<4>>, <<5>>, <<6>>, <<7>>, <<8>>, <<9>>, <<255>>,
     <<4, 4>>, <<0, 4>>, <<7, 7>>}

\* the costs a host callable reports: within the ceiling, at it, beyond it
HostCosts == {0, MaxCost, MaxCost + 1}

PyItems ==
    {PyInt(c) : c \in HostCosts} \cup {PyNode(p) : p \in {NoPtr, null, one}}
        \cup {PyStr("boom"), PyOther}

PyTuples == {PyTuple(<<>>)} \cup {PyTuple(<<x>>) : x \in PyItems}
                \cup {PyTuple(<<x, y>>) : x \in PyItems, y \in PyItems}

\* every behaviour of the host callable that the binding can tell apart
HostBehaviours ==
    {Host(FALSE, v, PyMissing) : v \in PyItems \cup PyTuples}
        \cup {Host(TRUE, v, sexp) :
                v \in {PyOther, PyTuple(<<>>), PyTuple(<<PyStr("boom")>>),
                       PyTuple(<<PyOther>>), PyTuple(<<PyStr("boom"), PyOther>>)},
                sexp \in {PyMissing, PyOther, PyNode(NoPtr), PyNode(null), PyNode(one)}}

\* the argument lists handed to a dispatch: an empty atom or a pair at each place
PyArgLists == UNION {[1..k -> {null, pr2}] : k \in 0..MaxPyArgs}

InitPy ==
    /\ \E elems \in PyArgLists :
        /\ arena = ListArena(elems, null)
        /\ args = ListPtr(elems, null)
    /\ \E m \in OpcodeMaps : prev = PyOperatorHandler_new(m)
    /\ res = NoCall
    /\ allocs = 0
    /\ pynodes = <<>>

\* one dispatch of the evaluator to the handler
Dispatch ==
    /\ Ready
    /\ \E op_buf \in Opcodes, max_cost \in Costs, cache_ok \in BOOLEAN,
          py_callable \in HostBehaviours :
        LET d == op(prev.native_lookup, cache_ok, py_callable, arena, op_buf, args, max_cost) IN
        /\ allocs + (Len(d.a) - Len(arena)) <= MaxAllocs
        /\ arena' = d.a
        /\ allocs' = allocs + (Len(d.a) - Len(arena))
        /\ res' = [op |-> "op", opcode |-> op_buf, input |-> args, param |-> max_cost,
                   ok |-> d.r.ok, cost |-> d.r.cost, node |-> d.r.node, msg |-> d.r.msg,
                   panic |-> d.r.panic, native |-> d.native, calls |-> d.calls,
                   cache_ok |-> (d.native # "none" \/ cache_ok),
                   host |-> IF d.calls = <<>> THEN NoHost ELSE py_callable]
    /\ UNCHANGED <<args, prev, pynodes>>

NextPy == Dispatch

SpecPy == InitPy /\ [][NextPy]_vars

\* the opcode of the last dispatch takes the fast path: one byte, populated slot
FastPath == Len(res.opcode) = 1 /\ prev.native_lookup[res.opcode[1]] # "none"

\* the one call the host callable gets: the opcode bytes and the argument list
TheHostCall == HostCall(res.opcode, PyNode(res.input))

\* C12 as stated: the built-in runs, and the host callable does not, exactly
\* when the opcode is one byte indexing a populated slot; for every other
\* opcode exactly one call goes to the host callable, with the opcode bytes and
\* the argument list; exactly one of the two handlers runs.
C12_ExactlyOneHandler ==
    res.op = "op" =>
        /\ (res.native # "none" /\ res.calls = <<>>) <=> FastPath
        /\ ~FastPath => res.native = "none" /\ res.calls = <<TheHostCall>>
        /\ (res.native # "none") # (Len(res.calls) = 1)

\* C12 amended: the built-in of the slot runs, and the host callable does not,
\* exactly on the fast path; for every other opcode no built-in runs and at
\* most one call goes to the host callable: exactly one, with the opcode bytes
\* and the argument list, when the argument list can be handed to the host,
\* and none when it cannot, the exit then being EvalErr(args, "can't uncache").
\* The two handlers never both run.
C12_AtMostOneHandler ==
    res.op = "op" =>
        /\ (res.native # "none" /\ res.calls = <<>>) <=> FastPath
        /\ FastPath => res.native = prev.native_lookup[res.opcode[1]]
        /\ ~FastPath /\ res.cache_ok => res.native = "none" /\ res.calls = <<TheHostCall>>
        /\ ~FastPath /\ ~res.cache_ok =>
               /\ res.native = "none" /\ res.calls = <<>>
               /\ ~res.panic /\ ~res.ok /\ res.node = res.input /\ res.msg = "can't uncache"
        /\ ~(res.native # "none" /\ res.calls # <<>>)

\* a one-byte opcode whose slot is empty, in a table that has populated slots,
\* went to the host callable
C12_Witness ==
    /\ res.op = "op"
    /\ Len(res.opcode) = 1 /\ ~FastPath
    /\ \E b \in 0..255 : prev.native_lookup[b] # "none"
    /\ res.calls = <<TheHostCall>>
    /\ res.native = "none"

\* the host callable was called and returned a pair (cost, node of the arena)
HostReported ==
    /\ res.op = "op" /\ res.calls # <<>> /\ ~res.host.raise
    /\ res.host.value.t = "tuple" /\ Len(res.host.value.items) = 2
    /\ res.host.value.items[1].t = "int"
    /\ res.host.value.items[2].t = "node" /\ res.host.value.items[2].n # NoPtr

ReportedCost == res.host.value.items[1].n

\* C13 as stated: when the host callable reports a cost greater than max_cost,
\* the dispatch ends in an EvalErr, never in a Reduction carrying that cost.
C13_CostExhaustion ==
    HostReported /\ ReportedCost > res.param => ~res.ok

\* C13 amended: whatever cost the host callable reports, within max_cost or
\* beyond it, the dispatch ends in the Reduction carrying exactly that cost and
\* the reported node; the cost is neither checked against max_cost nor cut down.
C13_ReportedCostReturned ==
    HostReported =>
        /\ ~res.panic /\ res.ok
        /\ res.cost = ReportedCost
        /\ res.node = res.host.value.items[2].n

\* a reported cost beyond a non-zero ceiling came back in a Reduction
C13_Witness ==
    /\ HostReported
    /\ res.param = MaxCost /\ ReportedCost > res.param
    /\ res.ok /\ res.cost = ReportedCost

\* the last dispatch ended in EvalErr(node, msg)
ExitIsErr(node, msg) == ~res.panic /\ ~res.ok /\ res.node = node /\ res.msg = msg

\* the host callable was called and raised an exception that carries a message
\* and a `_sexp` node of the arena
HostRaisedEvalError ==
    /\ res.host.raise
    /\ res.host.value.t = "tuple" /\ Len(res.host.value.items) >= 1
    /\ res.host.value.items[1].t = "str"
    /\ res.host.sexp.t = "node" /\ res.host.sexp.n # NoPtr

\* C14: every exit of op is a Reduction or an EvalErr and no panic escapes: an
\* exception with a message and a `_sexp` node becomes EvalErr(node, message),
\* any other exception EvalErr(args, "unexpected exception"); a returned value
\* that is not a tuple, whose first item is not a u32, whose second item is not
\* a node, or not a node of the arena, becomes the EvalErr on the argument
\* list with the matching message.
C14_EveryExitIsResponse ==
    res.op = "op" =>
        /\ ~res.panic
        /\ res.calls # <<>> /\ res.host.raise =>
               IF HostRaisedEvalError
               THEN ExitIsErr(res.host.sexp.n, res.host.value.items[1].s)
               ELSE ExitIsErr(res.input, "unexpected exception")
        /\ res.calls # <<>> /\ ~res.host.raise /\ ~HostReported =>
               LET o == res.host.value IN
               IF o.t # "tuple" THEN ExitIsErr(res.input, "expected tuple")
               ELSE IF Len(o.items) < 1 \/ o.items[1].t # "int"
               THEN ExitIsErr(res.input, "expected u32")
               ELSE IF Len(o.items) < 2 \/ o.items[2].t # "node"
               THEN ExitIsErr(res.input, "expected node")
               ELSE ExitIsErr(res.input, "can't find in int allocator")

\* the exits of op that are a Response are the ones the claim describes
C14_ResponseExits ==
    res.op = "op" /\ ~res.panic => C14_EveryExitIsResponse

\* ---------------------------------------------------------------------------
\* Determinism of the built-ins (core_ops.rs) under a change of allocator.
\* ---------------------------------------------------------------------------

\* the S-expression a pointer denotes: atom bytes, or the pair of two values
RECURSIVE Struct(_, _)
Struct(a, p) ==
    IF a[p].tag = "Pair" THEN <<"Pair", Struct(a, a[p].first), Struct(a, a[p].rest)>>
    ELSE <<"Atom", a[p].buf>>

\* the allocator a with every pointer p replaced by f[p]
Relabel(a, f) ==
    [i \in 1..Len(a) |-> IF a[i].tag = "Pair" THEN Pair(f[a[i].first], f[a[i].rest]) ELSE a[i]]

\* An allocator that holds one more atom right after the two constants: every
\* later node lives at the next pointer.
ShiftPtr(a) == [p \in 1..Len(a) |-> IF p > Len(NewAllocator) THEN p + 1 ELSE p]
Shift(a) ==
    LET b == Relabel(a, ShiftPtr(a)) IN
    SubSeq(b, 1, Len(NewAllocator)) \o <<Atom(<<255>>)>> \o SubSeq(b, Len(NewAllocator) + 1, Len(b))

\* An allocator that shares structure: the atom at one2 holds the bytes of the
\* constant one, and every pair refers to the constant instead.
MergePtr(a) == [p \in 1..Len(a) |-> IF p = one2 THEN one ELSE p]
Merge(a) == Relabel(a, MergePtr(a))

\* The same argument list built in another allocator, from other pointers.
Twins(a, p) ==
    { [a |-> Shift(a), ptr |-> ShiftPtr(a)[p]],
      [a |-> Merge(a), ptr |-> MergePtr(a)[p]],
      [a |-> Shift(Merge(a)), ptr |-> ShiftPtr(a)[MergePtr(a)[p]]] }

\* C15: a built-in run on a structurally equal argument list, built from other
\* pointers in another allocator, under any max_cost, ends as the first run
\* did: both succeed with the same cost and structurally equal results, or
\* both fail with the same message and structurally equal offending nodes.
C15_Deterministic ==
    res.op \in OpNames =>
        \A t \in Twins(arena, res.input), mc \in Costs :
            /\ Struct(t.a, t.ptr) = Struct(arena, res.input)
            /\ LET out == NativeFn(res.op, t.a, t.ptr, mc) IN
               /\ out.r.ok = res.ok
               /\ out.r.cost = res.cost
               /\ out.r.msg = res.msg
               /\ Struct(out.a, out.r.node) = Struct(arena, res.node)

\* (= x y) on two atoms of equal bytes at different pointers, under max_cost 0:
\* in the merged twin both arguments are the same pointer
C15_Witness ==
    /\ res.op = "=" /\ res.ok /\ res.param = 0
    /\ SpineLen(res.input) = 2
    /\ ArgAt(res.input, 1) = one2 /\ ArgAt(res.input, 2) = one
    /\ res.node = one

\* ---------------------------------------------------------------------------
\* What the built-ins leave alone.
\* ---------------------------------------------------------------------------

\* the nodes of the S-expression at p: p and every node below it
RECURSIVE SubNodes(_, _)
SubNodes(a, p) ==
    IF a[p].tag = "Pair" THEN {p} \cup SubNodes(a, a[p].first) \cup SubNodes(a, a[p].rest)
    ELSE {p}

\* this step is a call of built-in name
Calls(name) == res.op = "none" /\ res'.op = name

\* C18: every step leaves every node issued so far as it was; a successful
\* op_cons appends exactly one pair, of its two arguments, and returns it; a
\* call of any other built-in, and a failing call of any built-in, leaves the
\* allocator unchanged, and what it returns on success is a node of the
\* argument list or one of the constants null and one.
C18_Frame ==
    [][ /\ Len(arena') >= Len(arena)
        /\ SubSeq(arena', 1, Len(arena)) = arena
        /\ Calls("c") /\ res'.ok =>
               /\ arena' = Append(arena, Pair(ArgAt(args, 1), ArgAt(args, 2)))
               /\ res'.node = Len(arena')
        /\ (\E name \in OpNames : Calls(name)) /\ ~(res'.op = "c" /\ res'.ok) =>
               /\ arena' = arena
               /\ res'.ok => res'.node \in SubNodes(arena, args) \cup {null, one}
      ]_vars

\* after a successful op_cons and the assembly of its result into a new
\* argument list, a call of op_cons failed; the first pair is still there
C18_Witness ==
    /\ prev.op = "c" /\ prev.ok
    /\ res.op = "c" /\ ~res.ok
    /\ arena[prev.node] = Pair(ArgAt(prev.input, 1), ArgAt(prev.input, 2))
    /\ Len(arena) = prev.node + 1

\* ---------------------------------------------------------------------------
\* The node gateway of the Python binding (py/int_allocator_gateway.rs).
\* A PyIntNode cell is named by its index in pynodes.
\* ---------------------------------------------------------------------------

\* most PyIntNode cells alive at once
MaxPyNodes == 3

PyBytes(b) == PyObj("bytes", 0, "", b)
PyNone == PyObj("none", 0, "", <<>>)

\* Option<PyView>: None, or Some(PyView { atom, pair })
NoPyView == [some |-> FALSE, atom |-> PyNone, pair |-> PyNone]
PyView(atom_obj, pair_obj) == [some |-> TRUE, atom |-> atom_obj, pair |-> pair_obj]

\* PyView::py_bytes: the bytes behind atom, if it is a PyBytes
py_bytes(view) == extract(view.atom, "bytes")

\* PyView::py_pair: None if pair is not a tuple, else its two items as cells
py_pair(view) ==
    LET tuple == extract(view.pair, "tuple") IN
    IF ~tuple.ok THEN PyErr
    ELSE IF get_item(tuple.val, 0).panic \/ get_item(tuple.val, 1).panic THEN Panic
    ELSE PyOk(<<tuple.val.items[1], tuple.val.items[2]>>)

\* PyIntNode::new; native_view is the pointer, NoPtr for None; arena is TRUE
\* when the cell refers to the allocator object, FALSE when it holds None
PyIntNode_new(has_arena, native_view, py_view) ==
    [arena |-> has_arena, native_view |-> native_view, py_view |-> py_view]

\* IntAllocator::new_atom: appends one atom cell
new_atom(a, buf) == [a |-> Append(a, Atom(buf)), ptr |-> Len(a) + 1]

\* how a walk over the cells ended: the cells, the allocator, and whether it
\* panicked, with what
Ensured(nodes, a) == [nodes |-> nodes, a |-> a, panic |-> FALSE, msg |-> ""]
EnsurePanic(nodes, a, msg) == [nodes |-> nodes, a |-> a, panic |-> TRUE, msg |-> msg]

\* PyIntNode::ensure_native_view; borrowed is the set of cells some caller
\* holds a PyRef of
RECURSIVE ensure_native_view(_, _, _, _)
ensure_native_view(to_cast, nodes, a, borrowed) ==
    IF Len(to_cast) = 0 THEN Ensured(nodes, a)
    ELSE
    LET t == to_cast[Len(to_cast)]
        popped == SubSeq(to_cast, 1, Len(to_cast) - 1) IN
    IF t \in borrowed THEN EnsurePanic(nodes, a, "Already borrowed")
    ELSE IF nodes[t].native_view # NoPtr THEN ensure_native_view(popped, nodes, a, borrowed)
    ELSE IF ~nodes[t].py_view.some THEN EnsurePanic(nodes, a, "unwrap on None")
    ELSE
    LET blob == py_bytes(nodes[t].py_view) IN
    IF blob.ok
    THEN LET n == new_atom(a, blob.val.items) IN
         ensure_native_view(popped, [nodes EXCEPT ![t].native_view = n.ptr], n.a, borrowed)
    ELSE
    LET pp == py_pair(nodes[t].py_view) IN
    IF ~pp.ok THEN EnsurePanic(nodes, a, "unwrap on None")
    ELSE
    LET p1 == pp.val[1]
        p2 == pp.val[2] IN
    IF p1 = t \/ p2 = t THEN EnsurePanic(nodes, a, "Already mutably borrowed")
    ELSE IF nodes[p1].native_view # NoPtr /\ nodes[p2].native_view # NoPtr
    THEN LET n == new_pair(a, nodes[p1].native_view, nodes[p2].native_view) IN
         ensure_native_view(popped,
                            [nodes EXCEPT ![t].native_view = n.ptr, ![t].arena = TRUE],
                            n.a, borrowed)
    ELSE ensure_native_view(popped \o <<p1, p2>>, nodes, a, borrowed)

\* what a call on a cell returned: the cells and the allocator it leaves, and
\* either the value (a pointer, or a Python object) or a panic
Returned(nodes, a, ptr, value) ==
    [nodes |-> nodes, a |-> a, panic |-> FALSE, err |-> FALSE, msg |-> "",
     ptr |-> ptr, value |-> value]
Unwound(nodes, a, msg) ==
    [nodes |-> nodes, a |-> a, panic |-> TRUE, err |-> FALSE, msg |-> msg,
     ptr |-> NoPtr, value |-> PyNone]
\* the call returned a PyErr
Raised(nodes, a, msg) ==
    [nodes |-> nodes, a |-> a, panic |-> FALSE, err |-> TRUE, msg |-> msg,
     ptr |-> NoPtr, value |-> PyNone]

\* PyIntNode::ptr; py tells whether a Python token is passed
PyIntNode_ptr(slf, py, nodes, a) ==
    IF nodes[slf].native_view # NoPtr THEN Returned(nodes, a, nodes[slf].native_view, PyNone)
    ELSE IF py
    THEN LET e == ensure_native_view(<<slf>>, nodes, a, {slf}) IN
         IF e.panic THEN Unwound(e.nodes, e.a, e.msg)
         ELSE IF e.nodes[slf].native_view = NoPtr THEN Unwound(e.nodes, e.a, "unwrap on None")
         ELSE Returned(e.nodes, e.a, e.nodes[slf].native_view, PyNone)
    ELSE Unwound(nodes, a, "can't cast from python to native")

\* PyIntNode::ensure_python_view; view_borrowed is the set of cells whose
\* py_view some caller holds a Ref of
RECURSIVE ensure_python_view(_, _, _, _)
ensure_python_view(to_cast, nodes, a, view_borrowed) ==
    IF Len(to_cast) = 0 THEN Ensured(nodes, a)
    ELSE
    LET t == to_cast[Len(to_cast)]
        popped == SubSeq(to_cast, 1, Len(to_cast) - 1) IN
    IF nodes[t].py_view.some THEN ensure_python_view(popped, nodes, a, view_borrowed)
    ELSE IF nodes[t].native_view = NoPtr THEN EnsurePanic(nodes, a, "unwrap on None")
    ELSE
    LET ptr == nodes[t].native_view IN
    IF a[ptr].tag = "Atom"
    THEN IF t \in view_borrowed THEN EnsurePanic(nodes, a, "already borrowed")
         ELSE ensure_python_view(
                  popped,
                  [nodes EXCEPT ![t].py_view = PyView(PyBytes(a[ptr].buf), PyTuple(<<>>))],
                  a, view_borrowed)
    ELSE
    LET n1 == Len(nodes) + 1
        n2 == Len(nodes) + 2
        created == nodes \o <<PyIntNode_new(nodes[t].arena, a[ptr].first, NoPyView),
                              PyIntNode_new(nodes[t].arena, a[ptr].rest, NoPyView)>> IN
    IF t \in view_borrowed THEN EnsurePanic(nodes, a, "already borrowed")
    ELSE ensure_python_view(
             popped \o <<n1, n2>>,
             [created EXCEPT ![t].py_view = PyView(PyTuple(<<>>), PyTuple(<<n1, n2>>))],
             a, view_borrowed)

\* the getters `pair` and `atom`: field names the item of the view to return
getter(field, slf, nodes, a) ==
    IF nodes[slf].py_view.some
    THEN Returned(nodes, a, NoPtr, nodes[slf].py_view[field])
    ELSE IF ~nodes[slf].arena THEN Raised(nodes, a, "arena is not a PyIntAllocator")
    ELSE LET e == ensure_python_view(<<slf>>, nodes, a, {slf}) IN
         IF e.panic THEN Unwound(e.nodes, e.a, e.msg)
         ELSE Returned(e.nodes, e.a, NoPtr, e.nodes[slf].py_view[field])

PyIntNode_pair(slf, nodes, a) == getter("pair", slf, nodes, a)
PyIntNode_atom(slf, nodes, a) == getter("atom", slf, nodes, a)

\* the cells a cell reaches through the pair tuples of host views, and itself
RECURSIVE HostReach(_, _)
HostReach(nodes, n) ==
    IF nodes[n].py_view.some /\ nodes[n].py_view.pair.t = "tuple"
          /\ Len(nodes[n].py_view.pair.items) = 2
    THEN {n} \cup HostReach(nodes, nodes[n].py_view.pair.items[1])
             \cup HostReach(nodes, nodes[n].py_view.pair.items[2])
    ELSE {n}

\* a call on cell slf as res records it: what the cell was before, how the
\* call ended, how many cells below slf lacked a native view before, and how
\* many nodes the allocator gained
GwCall(name, slf, py, out) ==
    [op |-> name, input |-> slf, py |-> py,
     host_only |-> pynodes[slf].native_view = NoPtr /\ pynodes[slf].py_view.some,
     native_only |-> pynodes[slf].native_view # NoPtr /\ ~pynodes[slf].py_view.some,
     ok |-> ~out.panic /\ ~out.err, panic |-> out.panic, err |-> out.err, msg |-> out.msg,
     node |-> out.ptr, value |-> out.value,
     missing |-> Cardinality({n \in HostReach(pynodes, slf) : pynodes[n].native_view = NoPtr}),
     grown |-> Len(out.a) - Len(arena)]

\* the atoms a host creates nodes of
GwBufs == {<<>>, <<1>>}

\* the arena nodes handed to the host: an atom and a pair
GwPtrs == {one, pr2}

InitGw ==
    /\ arena = Pool
    /\ args = null
    /\ res = NoCall
    /\ prev = NoCall
    /\ allocs = 0
    /\ pynodes = <<>>

\* a classmethod or from_ptr adds the cell node
Create(node) ==
    /\ pynodes' = Append(pynodes, node)
    /\ res' = NoCall
    /\ UNCHANGED <<arena, args, prev, allocs>>

\* PyIntNode.new_atom(atom)
NewAtomNode ==
    /\ Len(pynodes) < MaxPyNodes
    /\ \E b \in GwBufs : Create(PyIntNode_new(FALSE, NoPtr, PyView(PyBytes(b), PyNone)))

\* PyIntNode.new_pair(p1, p2)
NewPairNode ==
    /\ Len(pynodes) < MaxPyNodes
    /\ \E p1 \in 1..Len(pynodes), p2 \in 1..Len(pynodes) :
        Create(PyIntNode_new(FALSE, NoPtr, PyView(PyNone, PyTuple(<<p1, p2>>))))

\* PyIntNode::from_ptr(py, py_int_allocator, ptr)
FromPtr ==
    /\ Len(pynodes) < MaxPyNodes
    /\ \E ptr \in GwPtrs : Create(PyIntNode_new(TRUE, ptr, NoPyView))

\* a call on a cell ends, leaving out
Finish(out, call) ==
    /\ Len(out.nodes) <= MaxPyNodes
    /\ allocs + (Len(out.a) - Len(arena)) <= MaxAllocs
    /\ pynodes' = out.nodes
    /\ arena' = out.a
    /\ allocs' = allocs + (Len(out.a) - Len(arena))
    /\ res' = call
    /\ UNCHANGED <<args, prev>>

Ptr ==
    \E slf \in 1..Len(pynodes), py \in BOOLEAN :
        LET out == PyIntNode_ptr(slf, py, pynodes, arena) IN
        Finish(out, GwCall("ptr", slf, py, out))

EnsureNativeView ==
    \E slf \in 1..Len(pynodes) :
        LET e == ensure_native_view(<<slf>>, pynodes, arena, {}) IN
        LET out == IF e.panic THEN Unwound(e.nodes, e.a, e.msg)
                   ELSE Returned(e.nodes, e.a, NoPtr, PyNone) IN
        Finish(out, GwCall("ensure_native_view", slf, TRUE, out))

EnsurePythonView ==
    \E slf \in 1..Len(pynodes) :
        LET e == ensure_python_view(<<slf>>, pynodes, arena, {}) IN
        LET out == IF e.panic THEN Unwound(e.nodes, e.a, e.msg)
                   ELSE Returned(e.nodes, e.a, NoPtr, PyNone) IN
        Finish(out, GwCall("ensure_python_view", slf, TRUE, out))

GetPair ==
    \E slf \in 1..Len(pynodes) :
        LET out == PyIntNode_pair(slf, pynodes, arena) IN
        Finish(out, GwCall("pair", slf, TRUE, out))

GetAtom ==
    \E slf \in 1..Len(pynodes) :
        LET out == PyIntNode_atom(slf, pynodes, arena) IN
        Finish(out, GwCall("atom", slf, TRUE, out))

NextGw ==
    \/ NewAtomNode
    \/ NewPairNode
    \/ FromPtr
    \/ Ptr
    \/ EnsureNativeView
    \/ EnsurePythonView
    \/ GetPair
    \/ GetAtom

SpecGw == InitGw /\ [][NextGw]_vars

\* the S-expression a cell's host view shows; a cell without a host view shows
\* the arena node behind its pointer
RECURSIVE HostStruct(_)
HostStruct(n) ==
    IF ~pynodes[n].py_view.some THEN Struct(arena, pynodes[n].native_view)
    ELSE IF pynodes[n].py_view.atom.t = "bytes" THEN <<"Atom", pynodes[n].py_view.atom.items>>
    ELSE <<"Pair", HostStruct(pynodes[n].py_view.pair.items[1]),
                   HostStruct(pynodes[n].py_view.pair.items[2])>>

\* every cell below n has a native view, and the arena node behind it is
\* structurally equal to the cell's host view
NativeViewsSet(n) ==
    \A m \in HostReach(pynodes, n) :
        /\ pynodes[m].native_view # NoPtr
        /\ Struct(arena, pynodes[m].native_view) = HostStruct(m)

\* C16: ptr, called with a Python token on a cell that has only a host view,
\* returns the cell's native pointer without a panic; afterwards every cell
\* reachable from it has a native view structurally equal to its host view,
\* and each cell that lacked one was allocated exactly once.
C16_PtrReturns ==
    res.op = "ptr" /\ res.py /\ res.host_only =>
        /\ ~res.panic
        /\ res.node # NoPtr /\ res.node = pynodes[res.input].native_view
        /\ NativeViewsSet(res.input)
        /\ res.grown = res.missing

\* ensure_native_view called directly on a cell, no borrow of it held, gives
\* every cell below it a native view, each allocated once
C16_EnsureNativeViewCompletes ==
    res.op = "ensure_native_view" /\ res.host_only =>
        ~res.panic /\ NativeViewsSet(res.input) /\ res.grown = res.missing

\* the same for the cells that are atoms, or pairs whose children already had
\* native views: the cells ensure_native_view does complete
C16_EnsureNativeViewLeaves ==
    res.op = "ensure_native_view" /\ res.host_only /\ res.missing = 1 =>
        ~res.panic /\ NativeViewsSet(res.input) /\ res.grown = 1

\* the host view of cell n is the one of the arena node behind its pointer:
\* exactly one of atom and pair is populated
PyViewMatches(n) ==
    LET v == pynodes[n].py_view
        node == arena[pynodes[n].native_view] IN
    /\ v.some
    /\ (v.atom.t = "bytes") # (v.pair.t = "tuple" /\ Len(v.pair.items) = 2)
    /\ IF node.tag = "Atom" THEN v.atom = PyBytes(node.buf)
       ELSE /\ v.pair.t = "tuple" /\ Len(v.pair.items) = 2
            /\ pynodes[v.pair.items[1]].native_view = node.first
            /\ pynodes[v.pair.items[2]].native_view = node.rest

\* C17: the getters `pair` and `atom`, read on a cell that has only a native
\* view, return without a panic; afterwards the cell and every cell created
\* below it has a host view matching the arena node behind its pointer, and
\* the getter returns the item of that view.
C17_GetterReturns ==
    res.op \in {"pair", "atom"} /\ res.native_only =>
        /\ ~res.panic /\ ~res.err
        /\ \A m \in HostReach(pynodes, res.input) : PyViewMatches(m)
        /\ res.value = pynodes[res.input].py_view[res.op]

\* ensure_python_view called directly on a cell, no Ref of its py_view held,
\* ends without a panic and leaves the cell and every cell created below it
\* with a matching host view
C17_EnsurePythonViewCompletes ==
    res.op = "ensure_python_view" /\ res.native_only =>
        /\ ~res.panic
        /\ \A m \in HostReach(pynodes, res.input) : PyViewMatches(m)

====
